---------------------------- MODULE Spec2Model ----------------------------
(***************************************************************************)
(* A model of plexy's preference-driven track selection (plexy/api.py):    *)
(* the stream comparator VideoPart.__get_lang_cmp, the ranking done by     *)
(* sorted(..., key=functools.cmp_to_key(language_cmp)), the per-part       *)
(* resolution VideoPart.save_preferences, and the criteria compiler        *)
(* Criteria.to_filters.                                                    *)
(***************************************************************************)
EXTENDS Integers, Sequences, FiniteSets, TLC

VARIABLES
    video_streams,      \* VideoPart.video_streams
    audio_streams,      \* VideoPart.audio_streams
    subtitle_streams,   \* VideoPart.subtitle_streams
    preferences,        \* the Preferences handed to save_preferences
    status,             \* "idle" | "returned" | "raised": how the last save_preferences ended
    events,             \* what the last save_preferences did, in program order
    locals,             \* the local variables of the last save_preferences
    result,             \* the value the last save_preferences returned
    changes,            \* the Changes the calls of save_preferences returned
    criteria,           \* the Criteria handed to to_filters
    library_type,       \* the LibraryType handed to to_filters
    filters,            \* what to_filters returned
    cmp_args,           \* the streams a, b, c and the desired_language handed to language_cmp
    cmp_out,            \* what language_cmp returned for each pair of them
    raw_stream,         \* the fields of the plexapi MediaPartStream handed to plexy.utils
    stream_out,         \* what get_title / get_expected_languages returned for it
    typed_title,        \* the string handed to Title.from_string, character by character
    parsed_title        \* what Title.from_string returned for it

vars == <<video_streams, audio_streams, subtitle_streams, preferences, status,
          events, locals, result, changes, criteria, library_type, filters,
          cmp_args, cmp_out, raw_stream, stream_out,
          typed_title, parsed_title>>

partVars == <<video_streams, audio_streams, subtitle_streams, preferences, status,
              events, locals, result, changes>>

filterVars == <<criteria, library_type, filters>>

cmpVars == <<cmp_args, cmp_out>>

streamVars == <<raw_stream, stream_out>>

parseVars == <<typed_title, parsed_title>>

-----------------------------------------------------------------------------
(* Bounds of the model *)

\* a part holds at most MaxStreams streams (video + audio + subtitle)
MaxStreams == 3

\* save_preferences is not run again on a part once it has returned
\* MaxChanges Changes for it
MaxChanges == 2

\* a Criteria holds at most MaxTitles titles
MaxTitles == 2

\* a season or episode number typed in a title has at most MaxDigits digits
MaxDigits == 2

-----------------------------------------------------------------------------
(* babelfish.Language: alpha3, country, script.  A missing country or      *)
(* script is Python's None, written "None" here.                           *)

Language(alpha3, country, script) ==
    [alpha3 |-> alpha3, country |-> country, script |-> script]

\* Python's None where a Language is expected (preferences.language,
\* original_language, selected_audio_lang)
NoLanguage == Language("None", "None", "None")

eng == Language("eng", "None", "None")
jpn == Language("jpn", "None", "None")
und == Language("und", "None", "None")
por == Language("por", "None", "None")
porBR == Language("por", "BR", "None")
porPT == Language("por", "PT", "None")
srpLatn == Language("srp", "None", "Latn")
srpCyrl == Language("srp", "None", "Cyrl")
zhoTW == Language("zho", "TW", "None")
zhoCN == Language("zho", "CN", "None")
zhoHantTW == Language("zho", "TW", "Hant")

\* babelfish.Language.__bool__: the undetermined language is falsy
LanguageTruthy(language) == language.alpha3 # "und"

-----------------------------------------------------------------------------
(* Stream *)

\* Python's None where a Stream is expected; a Stream of a part is named by
\* its position (1..) in the part's list of its kind
NoStream == 0

\* Stream.__init__; index, selected, default and codec are the properties
\* reading the wrapped plexapi stream
Stream(index, language, commentary, closed_caption, hearing_impaired, default, selected, codec) ==
    [index |-> index,
     language |-> language,
     commentary |-> commentary,
     closed_caption |-> closed_caption \/ codec = "eia_608",
     hearing_impaired |-> hearing_impaired,
     default |-> default,
     selected |-> selected,
     codec |-> codec]

-----------------------------------------------------------------------------
(* VideoPart.__get_lang_cmp / language_cmp *)

\* a value returned by language_cmp
Ret(v) == [raised |-> FALSE, value |-> v]

\* language_cmp reading an attribute of desired_language = None
AttributeError == [raised |-> TRUE, value |-> 0]

\* the loop over the role flags going on to the index order when the flags tie
PropCmpThenIndex(a, b) ==
    IF ~a.commentary /\ b.commentary THEN -1
    ELSE IF a.commentary /\ ~b.commentary THEN 1
    ELSE IF ~a.closed_caption /\ b.closed_caption THEN -1
    ELSE IF a.closed_caption /\ ~b.closed_caption THEN 1
    ELSE IF ~a.hearing_impaired /\ b.hearing_impaired THEN -1
    ELSE IF a.hearing_impaired /\ ~b.hearing_impaired THEN 1
    ELSE (IF a.index > b.index THEN 1 ELSE 0) - (IF a.index < b.index THEN 1 ELSE 0)

\* the loop over ('commentary', 'closed_caption', 'hearing_impaired')
PropCmp(a, b) ==
    IF ~a.commentary /\ b.commentary THEN -1
    ELSE IF a.commentary /\ ~b.commentary THEN 1
    ELSE IF ~a.closed_caption /\ b.closed_caption THEN -1
    ELSE IF a.closed_caption /\ ~b.closed_caption THEN 1
    ELSE IF ~a.hearing_impaired /\ b.hearing_impaired THEN -1
    ELSE IF a.hearing_impaired /\ ~b.hearing_impaired THEN 1
    ELSE 0

\* (a.index > b.index) - (a.index < b.index)
IndexCmp(a, b) ==
    (IF a.index > b.index THEN 1 ELSE 0) - (IF a.index < b.index THEN 1 ELSE 0)

\* b_language == desired_language.country compares a Language with a Country
\* (or None): babelfish.Language.__eq__ answers False for anything that is
\* neither a string nor a Language
LanguageEqCountry(language, country) == FALSE

\* language_cmp ranking the stream in the desired language last
language_cmp_desired_last(a, b, desired_language) ==
    LET a_language == a.language
        b_language == b.language
    IN  IF a_language = b_language THEN Ret(PropCmp(a, b))
        ELSE IF a_language = desired_language THEN Ret(1)
        ELSE IF b_language = desired_language THEN Ret(-1)
        ELSE IF desired_language = NoLanguage THEN AttributeError
        ELSE IF a_language.alpha3 # b_language.alpha3
             THEN IF a_language.alpha3 = desired_language.alpha3 THEN Ret(-1)
                  ELSE IF b_language.alpha3 = desired_language.alpha3 THEN Ret(1)
                  ELSE Ret(IndexCmp(a, b))
        ELSE IF a_language.country = b_language.country
             THEN IF a_language.script = desired_language.script THEN Ret(-1)
                  ELSE IF b_language.script = desired_language.script THEN Ret(1)
                  ELSE Ret(IndexCmp(a, b))
        ELSE IF a_language.country = desired_language.country THEN Ret(-1)
        ELSE IF LanguageEqCountry(b_language, desired_language.country) THEN Ret(1)
        ELSE Ret(IndexCmp(a, b))

language_cmp(a, b, desired_language) ==
    LET a_language == a.language
        b_language == b.language
    IN  IF a_language = b_language THEN Ret(PropCmp(a, b))
        ELSE IF a_language = desired_language THEN Ret(-1)
        ELSE IF b_language = desired_language THEN Ret(1)
        ELSE IF desired_language = NoLanguage THEN AttributeError
        ELSE IF a_language.alpha3 # b_language.alpha3
             THEN IF a_language.alpha3 = desired_language.alpha3 THEN Ret(-1)
                  ELSE IF b_language.alpha3 = desired_language.alpha3 THEN Ret(1)
                  ELSE Ret(IndexCmp(a, b))
        ELSE IF a_language.country = b_language.country
             THEN IF a_language.script = desired_language.script THEN Ret(-1)
                  ELSE IF b_language.script = desired_language.script THEN Ret(1)
                  ELSE Ret(IndexCmp(a, b))
        ELSE IF a_language.country = desired_language.country THEN Ret(-1)
        ELSE IF LanguageEqCountry(b_language, desired_language.country) THEN Ret(1)
        ELSE Ret(IndexCmp(a, b))

-----------------------------------------------------------------------------
(* sorted(candidates, key=functools.cmp_to_key(language_cmp)): CPython's    *)
(* list.sort on fewer than 64 elements is count_run followed by            *)
(* binarysort; the only comparison it makes is K(x) < K(y), which          *)
(* cmp_to_key turns into language_cmp(x, y) < 0.  xs is a sequence of      *)
(* positions in streams.  An exception raised by a comparison ends the     *)
(* sort.                                                                   *)

SortRaised == [raised |-> TRUE, list |-> <<>>]

SortDone(xs) == [raised |-> FALSE, list |-> xs]

Reverse(xs) == [i \in 1..Len(xs) |-> xs[Len(xs) + 1 - i]]

\* count_run, the run that is not descending: i is the next position to
\* look at; the answer is the length of the run
RECURSIVE AscendingRun(_, _, _, _)
AscendingRun(streams, xs, i, desired_language) ==
    IF i > Len(xs) THEN [raised |-> FALSE, n |-> Len(xs)]
    ELSE LET c == language_cmp(streams[xs[i]], streams[xs[i - 1]], desired_language)
         IN  IF c.raised THEN [raised |-> TRUE, n |-> 0]
             ELSE IF c.value < 0 THEN [raised |-> FALSE, n |-> i - 1]
             ELSE AscendingRun(streams, xs, i + 1, desired_language)

\* count_run, the strictly descending run
RECURSIVE DescendingRun(_, _, _, _)
DescendingRun(streams, xs, i, desired_language) ==
    IF i > Len(xs) THEN [raised |-> FALSE, n |-> Len(xs)]
    ELSE LET c == language_cmp(streams[xs[i]], streams[xs[i - 1]], desired_language)
         IN  IF c.raised THEN [raised |-> TRUE, n |-> 0]
             ELSE IF c.value < 0
                  THEN DescendingRun(streams, xs, i + 1, desired_language)
             ELSE [raised |-> FALSE, n |-> i - 1]

\* count_run on a list of at least two elements
count_run(streams, xs, desired_language) ==
    LET c == language_cmp(streams[xs[2]], streams[xs[1]], desired_language)
    IN  IF c.raised THEN [raised |-> TRUE, n |-> 0, descending |-> FALSE]
        ELSE IF c.value < 0
             THEN LET r == DescendingRun(streams, xs, 3, desired_language)
                  IN  [raised |-> r.raised, n |-> r.n, descending |-> TRUE]
        ELSE LET r == AscendingRun(streams, xs, 3, desired_language)
             IN  [raised |-> r.raised, n |-> r.n, descending |-> FALSE]

\* binarysort's search for the place of pivot in the sorted xs[1..start]:
\* l and r count from 0 as in listobject.c
RECURSIVE BinarySearch(_, _, _, _, _, _)
BinarySearch(streams, xs, pivot, l, r, desired_language) ==
    IF l >= r THEN [raised |-> FALSE, pos |-> l]
    ELSE LET p == l + ((r - l) \div 2)
             c == language_cmp(streams[pivot], streams[xs[p + 1]], desired_language)
         IN  IF c.raised THEN [raised |-> TRUE, pos |-> 0]
             ELSE IF c.value < 0
                  THEN BinarySearch(streams, xs, pivot, l, p, desired_language)
             ELSE BinarySearch(streams, xs, pivot, p + 1, r, desired_language)

\* binarysort: xs[1..start] is sorted, the rest is inserted one by one
RECURSIVE binarysort(_, _, _, _)
binarysort(streams, xs, start, desired_language) ==
    IF start >= Len(xs) THEN SortDone(xs)
    ELSE LET pivot == xs[start + 1]
             s == BinarySearch(streams, xs, pivot, 0, start, desired_language)
         IN  IF s.raised THEN SortRaised
             ELSE binarysort(streams,
                             SubSeq(xs, 1, s.pos) \o <<pivot>>
                                 \o SubSeq(xs, s.pos + 1, start)
                                 \o SubSeq(xs, start + 2, Len(xs)),
                             start + 1, desired_language)

sorted(streams, xs, desired_language) ==
    IF Len(xs) < 2 THEN SortDone(xs)
    ELSE LET run == count_run(streams, xs, desired_language)
         IN  IF run.raised THEN SortRaised
             ELSE binarysort(streams,
                             IF run.descending
                             THEN Reverse(SubSeq(xs, 1, run.n))
                                      \o SubSeq(xs, run.n + 1, Len(xs))
                             ELSE xs,
                             run.n, desired_language)

-----------------------------------------------------------------------------
(* VideoPart *)

\* [stream for stream in streams if stream.selected]; streams[0] or None
FirstSelected(streams) ==
    IF \E i \in 1..Len(streams) : streams[i].selected
    THEN CHOOSE i \in 1..Len(streams) :
             /\ streams[i].selected
             /\ \A j \in 1..(i - 1) : ~streams[j].selected
    ELSE NoStream

\* VideoPart.selected_audio
selected_audio(self_audio_streams) == FirstSelected(self_audio_streams)

\* VideoPart.selected_subtitle
selected_subtitle(self_subtitle_streams) == FirstSelected(self_subtitle_streams)

\* sorted(streams, key=lambda x: x.default, reverse=True): a stable sort, the
\* streams marked default first, each group in its original order
SortedByDefault(streams) ==
    SelectSeq(streams, LAMBDA x : x.default) \o SelectSeq(streams, LAMBDA x : ~x.default)

\* [stream.language for stream in ... if stream.language]
TruthyLanguages(streams) ==
    LET kept == SelectSeq(streams, LAMBDA x : LanguageTruthy(x.language))
    IN  [i \in 1..Len(kept) |-> kept[i].language]

\* the streams marked default, in list order
DefaultOnly(streams) == SelectSeq(streams, LAMBDA x : x.default)

\* original_language reading only the streams marked default
original_language_default_only(self_video_streams, self_audio_streams) ==
    LET from_video == TruthyLanguages(DefaultOnly(self_video_streams))
        from_audio == TruthyLanguages(DefaultOnly(self_audio_streams))
    IN  IF Len(from_video) > 0 THEN from_video[1]
        ELSE IF Len(from_audio) > 0 THEN from_audio[1]
        ELSE NoLanguage

\* VideoPart.original_language
original_language(self_video_streams, self_audio_streams) ==
    LET from_video == TruthyLanguages(SortedByDefault(self_video_streams))
        from_audio == TruthyLanguages(SortedByDefault(self_audio_streams))
    IN  IF Len(from_video) > 0 THEN from_video[1]
        ELSE IF Len(from_audio) > 0 THEN from_audio[1]
        ELSE NoLanguage

\* the codec filter of choose_audio_track and choose_subtitle_track:
\* (not codecs or stream.codec in codecs) and stream.codec not in excluded
CodecAccepted(stream, codecs, excluded_codecs) ==
    /\ (codecs = {} \/ stream.codec \in codecs)
    /\ stream.codec \notin excluded_codecs

\* the positions of the streams the codec filter lets through, in list order
Candidates(streams, codecs, excluded_codecs) ==
    SelectSeq([i \in 1..Len(streams) |-> i],
              LAMBDA i : CodecAccepted(streams[i], codecs, excluded_codecs))

Chosen(stream) == [raised |-> FALSE, stream |-> stream]

ChoiceRaised == [raised |-> TRUE, stream |-> NoStream]

\* streams[0] if streams else <the current selection>
FirstOr(ranked, fallback) ==
    IF ranked.raised THEN ChoiceRaised
    ELSE IF Len(ranked.list) > 0 THEN Chosen(ranked.list[1])
    ELSE Chosen(fallback)

\* target_language taking the desired language under either preference
target_language_desired(self_video_streams, self_audio_streams, prefs) == prefs.language

\* the target language of choose_audio_track
target_language(self_video_streams, self_audio_streams, prefs) ==
    IF prefs.watching_preference = "dubbed" THEN prefs.language
    ELSE original_language(self_video_streams, self_audio_streams)

\* choose_audio_track without its keep_selected_audio test
choose_audio_track_ranking(self_video_streams, self_audio_streams, prefs) ==
    FirstOr(sorted(self_audio_streams,
                   Candidates(self_audio_streams, prefs.audio_codecs,
                              prefs.excluded_audio_codecs),
                   target_language(self_video_streams, self_audio_streams, prefs)),
            selected_audio(self_audio_streams))

\* VideoPart.choose_audio_track
choose_audio_track(self_video_streams, self_audio_streams, prefs) ==
    IF prefs.keep_selected_audio THEN Chosen(selected_audio(self_audio_streams))
    ELSE FirstOr(sorted(self_audio_streams,
                        Candidates(self_audio_streams, prefs.audio_codecs,
                                   prefs.excluded_audio_codecs),
                        target_language(self_video_streams, self_audio_streams, prefs)),
                 selected_audio(self_audio_streams))

\* VideoPart.choose_subtitle_track
choose_subtitle_track(self_subtitle_streams, prefs) ==
    FirstOr(sorted(self_subtitle_streams,
                   Candidates(self_subtitle_streams, prefs.subtitle_codecs,
                              prefs.excluded_subtitle_codecs),
                   prefs.language),
            selected_subtitle(self_subtitle_streams))

\* part.setDefaultAudioStream / part.setDefaultSubtitleStream: the stream at
\* position selection becomes the selected one of its kind
SetSelected(streams, selection) ==
    [i \in 1..Len(streams) |-> [streams[i] EXCEPT !.selected = (i = selection)]]

\* VideoPart.select_audio
select_audio(self_audio_streams, selection) == SetSelected(self_audio_streams, selection)

\* VideoPart.select_subtitle
select_subtitle(self_subtitle_streams, selection) ==
    SetSelected(self_subtitle_streams, selection)

\* VideoPart.unselect_subtitle: part.resetDefaultSubtitleStream
unselect_subtitle(self_subtitle_streams) == SetSelected(self_subtitle_streams, NoStream)

-----------------------------------------------------------------------------
(* VideoPart.save_preferences *)

\* one thing save_preferences did: it determined a choice ("audio_chosen",
\* "subtitle_chosen"), called a mutation of the part ("select_audio",
\* "select_subtitle", "unselect_subtitle") or let an exception out ("raise")
Event(op, stream) == [op |-> op, stream |-> stream]

Mutations == {"select_audio", "select_subtitle", "unselect_subtitle"}

\* Change.__init__ (the video field, the part itself, is left out)
Change(previous_audio, previous_subtitle, audio, subtitle) ==
    [change |-> TRUE,
     previous_audio |-> previous_audio, previous_subtitle |-> previous_subtitle,
     audio |-> audio, subtitle |-> subtitle]

\* save_preferences falling off its end: Python's None
NoChange ==
    [change |-> FALSE,
     previous_audio |-> NoStream, previous_subtitle |-> NoStream,
     audio |-> NoStream, subtitle |-> NoStream]

\* ReturnValue comparing the audio only
ReturnValueAudioOnly(previous_selected_audio, previous_selected_subtitle, new_audio, new_subtitle) ==
    IF new_audio # previous_selected_audio
    THEN Change(previous_selected_audio, previous_selected_subtitle, new_audio, new_subtitle)
    ELSE NoChange

\* the return statement of save_preferences
ReturnValue(previous_selected_audio, previous_selected_subtitle, new_audio, new_subtitle) ==
    IF new_audio # previous_selected_audio \/ new_subtitle # previous_selected_subtitle
    THEN Change(previous_selected_audio, previous_selected_subtitle, new_audio, new_subtitle)
    ELSE NoChange

\* the audio step with select_audio called before the choice is determined
SelectAudioFirst(self_audio_streams, previous_selected_audio, chosen) ==
    IF chosen.raised
    THEN [raised |-> TRUE, stream |-> NoStream,
          events |-> <<Event("raise", NoStream)>>,
          streams |-> self_audio_streams]
    ELSE IF chosen.stream # previous_selected_audio
    THEN [raised |-> FALSE, stream |-> chosen.stream,
          events |-> <<Event("select_audio", chosen.stream),
                       Event("audio_chosen", chosen.stream)>>,
          streams |-> select_audio(self_audio_streams, chosen.stream)]
    ELSE [raised |-> FALSE, stream |-> chosen.stream,
          events |-> <<Event("audio_chosen", chosen.stream)>>,
          streams |-> self_audio_streams]

\* `if selected_audio != previous_selected_audio: self.select_audio(...)`,
\* chosen being what choose_audio_track answered
SelectAudio(self_audio_streams, previous_selected_audio, chosen) ==
    IF chosen.raised
    THEN [raised |-> TRUE, stream |-> NoStream,
          events |-> <<Event("raise", NoStream)>>,
          streams |-> self_audio_streams]
    ELSE IF chosen.stream # previous_selected_audio
    THEN [raised |-> FALSE, stream |-> chosen.stream,
          events |-> <<Event("audio_chosen", chosen.stream),
                       Event("select_audio", chosen.stream)>>,
          streams |-> select_audio(self_audio_streams, chosen.stream)]
    ELSE [raised |-> FALSE, stream |-> chosen.stream,
          events |-> <<Event("audio_chosen", chosen.stream)>>,
          streams |-> self_audio_streams]

\* selected_audio = self.choose_audio_track(preferences), and select_audio
\* when it is not the previous selection
AudioStep(self_video_streams, self_audio_streams, prefs, previous_selected_audio) ==
    SelectAudio(self_audio_streams, previous_selected_audio,
                choose_audio_track(self_video_streams, self_audio_streams, prefs))

\* selected_audio.language if selected_audio else None
selected_audio_lang(self_audio_streams, selected) ==
    IF selected # NoStream THEN self_audio_streams[selected].language ELSE NoLanguage

\* the subtitle selection with the selected subtitle reset before another
\* one is selected
ResetThenSelectSubtitle(self_subtitle_streams, previous_selected_subtitle, chosen) ==
    IF chosen.raised
    THEN [raised |-> TRUE, stream |-> previous_selected_subtitle,
          events |-> <<Event("raise", NoStream)>>,
          streams |-> self_subtitle_streams]
    ELSE IF chosen.stream # previous_selected_subtitle
    THEN [raised |-> FALSE, stream |-> chosen.stream,
          events |-> <<Event("subtitle_chosen", chosen.stream)>>
                         \o (IF previous_selected_subtitle # NoStream
                             THEN <<Event("unselect_subtitle", NoStream)>>
                             ELSE <<>>)
                         \o <<Event("select_subtitle", chosen.stream)>>,
          streams |-> select_subtitle(self_subtitle_streams, chosen.stream)]
    ELSE [raised |-> FALSE, stream |-> chosen.stream,
          events |-> <<Event("subtitle_chosen", chosen.stream)>>,
          streams |-> self_subtitle_streams]

\* `if selected_subtitle != previous_selected_subtitle:
\* self.select_subtitle(...)`, chosen being what choose_subtitle_track
\* answered
SelectSubtitle(self_subtitle_streams, previous_selected_subtitle, chosen) ==
    IF chosen.raised
    THEN [raised |-> TRUE, stream |-> previous_selected_subtitle,
          events |-> <<Event("raise", NoStream)>>,
          streams |-> self_subtitle_streams]
    ELSE IF chosen.stream # previous_selected_subtitle
    THEN [raised |-> FALSE, stream |-> chosen.stream,
          events |-> <<Event("subtitle_chosen", chosen.stream),
                       Event("select_subtitle", chosen.stream)>>,
          streams |-> select_subtitle(self_subtitle_streams, chosen.stream)]
    ELSE [raised |-> FALSE, stream |-> chosen.stream,
          events |-> <<Event("subtitle_chosen", chosen.stream)>>,
          streams |-> self_subtitle_streams]

\* SubtitleStep with the last elif turned into an else: unselect_subtitle is
\* called although no subtitle was selected
SubtitleStepAlwaysUnselect(self_subtitle_streams, prefs, audio_lang, previous_selected_subtitle) ==
    IF prefs.keep_selected_subtitle /\ previous_selected_subtitle # NoStream
    THEN [raised |-> FALSE, stream |-> previous_selected_subtitle,
          events |-> <<Event("subtitle_chosen", previous_selected_subtitle)>>,
          streams |-> self_subtitle_streams]
    ELSE IF audio_lang # prefs.language \/ prefs.force_subtitles
    THEN SelectSubtitle(self_subtitle_streams, previous_selected_subtitle,
                        choose_subtitle_track(self_subtitle_streams, prefs))
    ELSE [raised |-> FALSE, stream |-> NoStream,
          events |-> <<Event("subtitle_chosen", NoStream),
                       Event("unselect_subtitle", NoStream)>>,
          streams |-> unselect_subtitle(self_subtitle_streams)]

\* SubtitleStep choosing a subtitle whatever the audio language is: the elif
\* on selected_audio_lang and force_subtitles always taken
SubtitleStepAlwaysChoose(self_subtitle_streams, prefs, audio_lang, previous_selected_subtitle) ==
    IF prefs.keep_selected_subtitle /\ previous_selected_subtitle # NoStream
    THEN [raised |-> FALSE, stream |-> previous_selected_subtitle,
          events |-> <<Event("subtitle_chosen", previous_selected_subtitle)>>,
          streams |-> self_subtitle_streams]
    ELSE SelectSubtitle(self_subtitle_streams, previous_selected_subtitle,
                        choose_subtitle_track(self_subtitle_streams, prefs))

\* the if / elif / elif on the subtitle of save_preferences
SubtitleStep(self_subtitle_streams, prefs, audio_lang, previous_selected_subtitle) ==
    IF prefs.keep_selected_subtitle /\ previous_selected_subtitle # NoStream
    THEN [raised |-> FALSE, stream |-> previous_selected_subtitle,
          events |-> <<Event("subtitle_chosen", previous_selected_subtitle)>>,
          streams |-> self_subtitle_streams]
    ELSE IF audio_lang # prefs.language \/ prefs.force_subtitles
    THEN SelectSubtitle(self_subtitle_streams, previous_selected_subtitle,
                        choose_subtitle_track(self_subtitle_streams, prefs))
    ELSE IF previous_selected_subtitle # NoStream
    THEN [raised |-> FALSE, stream |-> NoStream,
          events |-> <<Event("subtitle_chosen", NoStream),
                       Event("unselect_subtitle", NoStream)>>,
          streams |-> unselect_subtitle(self_subtitle_streams)]
    ELSE [raised |-> FALSE, stream |-> previous_selected_subtitle,
          events |-> <<Event("subtitle_chosen", previous_selected_subtitle)>>,
          streams |-> self_subtitle_streams]

\* the local variables of save_preferences
Locals(previous_selected_audio, previous_selected_subtitle, audio, subtitle) ==
    [previous_selected_audio |-> previous_selected_audio,
     previous_selected_subtitle |-> previous_selected_subtitle,
     selected_audio |-> audio,
     selected_subtitle |-> subtitle]

\* save_preferences after both steps: audio and subtitle are what AudioStep
\* and SubtitleStep answered
Ended(previous_selected_audio, previous_selected_subtitle, audio, subtitle) ==
    [status |-> IF subtitle.raised THEN "raised" ELSE "returned",
     events |-> audio.events \o subtitle.events,
     audio_streams |-> audio.streams,
     subtitle_streams |-> subtitle.streams,
     locals |-> Locals(previous_selected_audio, previous_selected_subtitle,
                       audio.stream, subtitle.stream),
     result |-> IF subtitle.raised THEN NoChange
                ELSE ReturnValue(previous_selected_audio, previous_selected_subtitle,
                                 audio.stream, subtitle.stream)]

\* save_preferences after its audio step: it ends there when
\* choose_audio_track raised
AfterAudio(self_audio_streams, self_subtitle_streams, prefs, previous_selected_audio, previous_selected_subtitle, audio) ==
    IF audio.raised
    THEN [status |-> "raised",
          events |-> audio.events,
          audio_streams |-> audio.streams,
          subtitle_streams |-> self_subtitle_streams,
          locals |-> Locals(previous_selected_audio, previous_selected_subtitle,
                            NoStream, NoStream),
          result |-> NoChange]
    ELSE Ended(previous_selected_audio, previous_selected_subtitle, audio,
               SubtitleStep(self_subtitle_streams, prefs,
                            selected_audio_lang(self_audio_streams, audio.stream),
                            previous_selected_subtitle))

\* VideoPart.save_preferences: how it ends, what it did in program order, the
\* part's streams afterwards, its local variables and the value it returns
save_preferences(self_video_streams, self_audio_streams, self_subtitle_streams, prefs) ==
    AfterAudio(self_audio_streams, self_subtitle_streams, prefs,
               selected_audio(self_audio_streams),
               selected_subtitle(self_subtitle_streams),
               AudioStep(self_video_streams, self_audio_streams, prefs,
                         selected_audio(self_audio_streams)))

-----------------------------------------------------------------------------
(* Title and Criteria.  An Optional[int] is <<>> for None and <<v>> for    *)
(* the int v; an Optional[str] is "None" for None.  A filter (a dict) is a *)
(* function from its keys to their values.                                 *)

None == <<>>

Some(v) == <<v>>

\* bool(x) of an Optional[int]: None and 0 are falsy
IntTruthy(x) == x # None /\ x[1] # 0

\* bool(s) of an Optional[str]: None and '' are falsy
StrTruthy(s) == s # "None" /\ s # ""

\* Title.__init__
Title(name, year, season, episode) ==
    [name |-> name, year |-> year, season |-> season, episode |-> episode]

\* Title.is_episode
is_episode(title) == title.season # None \/ title.episode # None

\* Title.is_only_name
is_only_name(title) == title.year = None /\ ~is_episode(title)

\* \d, as far as the titles typed here go
DigitChars == {"0", "1", "2", "9"}

\* the value of a digit
DigitValue(char) ==
    CASE char = "0" -> 0
      [] char = "1" -> 1
      [] char = "2" -> 2
      [] char = "9" -> 9

\* int(value) of a string of digits
RECURSIVE int(_)
int(digits) ==
    IF digits = <<>> THEN 0
    ELSE 10 * int(SubSeq(digits, 1, Len(digits) - 1)) + DigitValue(digits[Len(digits)])

\* numbers.get(name): None for a group that did not take part in the match
OptionalInt(group) == IF group = None THEN None ELSE Some(int(group[1]))

\* how many characters of chars the string starts with: what a greedy \s* or
\* \d+ takes
RECURSIVE Span(_, _)
Span(string, chars) ==
    IF string = <<>> THEN 0
    ELSE IF Head(string) \notin chars THEN 0
    ELSE 1 + Span(Tail(string), chars)

\* the string without its first n characters
Drop(string, n) == SubSeq(string, n + 1, Len(string))

\* the end of title_re: $ after the groups
MatchEnd(year, season, episode, rest) ==
    [matched |-> rest = <<>>, year |-> year, season |-> season, episode |-> episode]

\* title_re: (?:e(?P<episode>\d+))?
MatchEpisode(year, season, rest) ==
    IF rest # <<>> /\ Head(rest) = "e" /\ Span(Tail(rest), DigitChars) >= 1
    THEN MatchEnd(year, season,
                  Some(SubSeq(rest, 2, 1 + Span(Tail(rest), DigitChars))),
                  Drop(rest, 1 + Span(Tail(rest), DigitChars)))
    ELSE MatchEnd(year, season, None, rest)

\* title_re: (?:s(?P<season>\d+)(?:e(?P<episode>\d+))?)?
MatchSeason(year, rest) ==
    IF rest # <<>> /\ Head(rest) = "s" /\ Span(Tail(rest), DigitChars) >= 1
    THEN MatchEpisode(year,
                      Some(SubSeq(rest, 2, 1 + Span(Tail(rest), DigitChars))),
                      Drop(rest, 1 + Span(Tail(rest), DigitChars)))
    ELSE MatchEnd(year, None, None, rest)

\* title_re: the \s* between the year and the season
MatchSpaces(year, rest) == MatchSeason(year, Drop(rest, Span(rest, {" "})))

\* title_re: (?:\((?P<year>\d{4})\))?
MatchYear(rest) ==
    IF Len(rest) >= 6 /\ rest[1] = "(" /\ Span(SubSeq(rest, 2, 5), DigitChars) = 4
           /\ rest[6] = ")"
    THEN MatchSpaces(Some(SubSeq(rest, 2, 5)), Drop(rest, 6))
    ELSE MatchSpaces(None, rest)

\* title_re after the name: \s*((?:\((?P<year>\d{4})\))?\s*)(?:s...)?$
MatchAfterName(rest) == MatchYear(Drop(rest, Span(rest, {" "})))

\* from_string raising InvalidTitle
InvalidTitle == [raised |-> TRUE, value |-> Title(<<>>, None, None, None)]

\* from_string returning the Title of a match
TitleOfMatch(name, match) ==
    [raised |-> FALSE,
     value |-> Title(name, OptionalInt(match.year), OptionalInt(match.season),
                     OptionalInt(match.episode))]

\* title_re.match: (?P<name>.*?) is the shortest start of the string after
\* which the rest of the pattern matches
RECURSIVE MatchName(_, _)
TryName(string, n, match) ==
    IF match.matched THEN TitleOfMatch(SubSeq(string, 1, n), match)
    ELSE IF n >= Len(string) THEN InvalidTitle
    ELSE MatchName(string, n + 1)

MatchName(string, n) == TryName(string, n, MatchAfterName(Drop(string, n)))

\* Title.from_string; the name of the Title is kept character by character
from_string(string) == MatchName(string, 0)

\* from_string was not called
NotParsed == [called |-> FALSE, raised |-> FALSE, value |-> Title(<<>>, None, None, None)]

\* Criteria.__init__, as far as to_filters reads it
Criteria(titles, newer_than, older_than) ==
    [titles |-> titles, newer_than |-> newer_than, older_than |-> older_than]

\* filters = {}
EmptyFilter == <<>>

\* filters[key] = value
SetItem(filter, key, value) == (key :> value) @@ filter

\* key in filter
HasKey(filter, key) == key \in DOMAIN filter

\* f'{prefix}.title'
TitleKey(lib_type) == IF lib_type = "episode" THEN "show.title" ELSE "movie.title"

\* f'{lib_type.value}.year'
YearKey(lib_type) == IF lib_type = "episode" THEN "episode.year" ELSE "movie.year"

\* Criteria.__matching_titles
matching_titles(self, lib_type) ==
    IF lib_type = "movie"
    THEN SelectSeq(self.titles, LAMBDA t : ~is_episode(t))
    ELSE self.titles

\* Criteria.__to_filter; names is a str or a list of str, names_truthy is
\* bool(names)
to_filter(self, names, names_truthy, lib_type) ==
    LET newer == IF StrTruthy(self.newer_than)
                 THEN SetItem(EmptyFilter, "addedAt>>", self.newer_than)
                 ELSE EmptyFilter
        older == IF StrTruthy(self.older_than)
                 THEN SetItem(newer, "addedAt<<", self.older_than)
                 ELSE newer
    IN  IF names_truthy THEN SetItem(older, TitleKey(lib_type), names) ELSE older

\* the body of the for loop of to_filters, for a title it does not skip
cur_filter(self, title, lib_type) ==
    LET named == to_filter(self, title.name, title.name # "", lib_type)
        year == IF IntTruthy(title.year)
                THEN SetItem(named, YearKey(lib_type), title.year[1])
                ELSE named
        season == IF IntTruthy(title.season)
                  THEN SetItem(year, "season.index", title.season[1])
                  ELSE year
    IN  IF IntTruthy(title.episode)
        THEN SetItem(season, "episode.index", title.episode[1])
        ELSE season

\* the titles the for loop of to_filters does not skip
LoopTitles(titles, lib_type) ==
    SelectSeq(titles, LAMBDA t : ~(is_episode(t) /\ lib_type # "episode"))

\* to_filters takes the per-title branch
PerTitle(self, lib_type) ==
    LET titles == matching_titles(self, lib_type)
    IN  /\ titles # <<>>
        /\ Len(SelectSeq(titles, is_only_name)) # Len(titles)

\* to_filters answering the nameless filter whenever no title matches the
\* library type, also when the criteria has titles
to_filters_nameless_fallback(self, lib_type) ==
    LET titles == matching_titles(self, lib_type)
        only_names == SelectSeq(titles, is_only_name)
        names == [i \in 1..Len(only_names) |-> only_names[i].name]
        kept == LoopTitles(titles, lib_type)
    IN  IF titles = <<>>
        THEN <<to_filter(self, <<>>, FALSE, lib_type)>>
        ELSE IF Len(names) = Len(titles)
        THEN <<to_filter(self, names, TRUE, lib_type)>>
        ELSE [i \in 1..Len(kept) |-> cur_filter(self, kept[i], lib_type)]

\* Criteria.to_filters
to_filters(self, lib_type) ==
    LET titles == matching_titles(self, lib_type)
        only_names == SelectSeq(titles, is_only_name)
        names == [i \in 1..Len(only_names) |-> only_names[i].name]
        kept == LoopTitles(titles, lib_type)
    IN  IF titles = <<>>
        THEN IF self.titles = <<>>
             THEN <<to_filter(self, <<>>, FALSE, lib_type)>>
             ELSE <<>>
        ELSE IF Len(names) = Len(titles)
        THEN <<to_filter(self, names, TRUE, lib_type)>>
        ELSE [i \in 1..Len(kept) |-> cur_filter(self, kept[i], lib_type)]

\* to_filters has not returned
NotReturned == [returned |-> FALSE, value |-> <<>>]

\* to_filters returned value
Returned(value) == [returned |-> TRUE, value |-> value]

\* language_cmp was not called
NoComparison ==
    [done |-> FALSE, ab |-> Ret(0), ba |-> Ret(0), bc |-> Ret(0), cb |-> Ret(0),
     ac |-> Ret(0), ca |-> Ret(0)]

-----------------------------------------------------------------------------
(* plexy.utils: get_title and get_expected_languages on the fields of a    *)
(* plexapi MediaPartStream.  An Optional[str] field is None or Some(s).    *)
(* babelfish's converters are given by what they answer on the codes used  *)
(* here.                                                                   *)

MediaPartStream(languageCode, language, languageTag, extendedDisplayTitle, displayTitle, title) ==
    [languageCode |-> languageCode, language |-> language, languageTag |-> languageTag,
     extendedDisplayTitle |-> extendedDisplayTitle, displayTitle |-> displayTitle,
     title |-> title]

\* neither get_title nor get_expected_languages was called
NotCalled == [called |-> "none", value |-> <<>>]

\* key=lambda x: len(x) if x else 0
LenOrZero(x) == IF x = None THEN 0 ELSE Len(x[1])

\* a step of a sort by descending key that is not stable: x goes before the
\* elements of equal key
RECURSIVE InsertBeforeEqual(_, _)
InsertBeforeEqual(sorted_xs, x) ==
    IF sorted_xs = <<>> THEN <<x>>
    ELSE IF LenOrZero(Head(sorted_xs)) > LenOrZero(x)
    THEN <<Head(sorted_xs)>> \o InsertBeforeEqual(Tail(sorted_xs), x)
    ELSE <<x>> \o sorted_xs

\* a step of the stable sort by descending key: x goes behind every element
\* whose key is not smaller
RECURSIVE InsertByLen(_, _)
InsertByLen(sorted_xs, x) ==
    IF sorted_xs = <<>> THEN <<x>>
    ELSE IF LenOrZero(Head(sorted_xs)) >= LenOrZero(x)
    THEN <<Head(sorted_xs)>> \o InsertByLen(Tail(sorted_xs), x)
    ELSE <<x>> \o sorted_xs

\* sorted(xs, key=lambda x: len(x) if x else 0, reverse=True)
RECURSIVE SortedByLenReversed(_)
SortedByLenReversed(xs) ==
    IF xs = <<>> THEN <<>>
    ELSE InsertByLen(SortedByLenReversed(SubSeq(xs, 1, Len(xs) - 1)), xs[Len(xs)])

\* plexy.utils.get_title
get_title(self) ==
    SortedByLenReversed(<<self.extendedDisplayTitle, self.displayTitle, self.title>>)[1]

\* a converter of babelfish raising ValueError or LanguageReverseError
ConvRaised == [raised |-> TRUE, language |-> NoLanguage]

\* a converter of babelfish answering language
Conv(language) == [raised |-> FALSE, language |-> language]

\* babelfish.Language(alpha3): ValueError unless alpha3 is an ISO-639-3 code
LanguageOfAlpha3(code) ==
    IF code \in {"eng", "por", "srp", "zho", "und"}
    THEN Conv(Language(code, "None", "None"))
    ELSE ConvRaised

\* babelfish.Language.fromalpha2: LanguageReverseError unless the code is an
\* ISO-639-1 code
fromalpha2(code) ==
    CASE code = "en" -> Conv(eng)
      [] code = "pt" -> Conv(por)
      [] code = "sr" -> Conv(Language("srp", "None", "None"))
      [] code = "zh" -> Conv(Language("zho", "None", "None"))
      [] OTHER -> ConvRaised

\* babelfish.Language.fromname: LanguageReverseError unless the code is an
\* English language name
fromname(code) ==
    CASE code = "English" -> Conv(eng)
      [] code = "Portuguese" -> Conv(por)
      [] OTHER -> ConvRaised

\* ietf.split('-'), the first subtag in lower case
Subtags(code) ==
    CASE code = "pt-BR" -> <<"pt", "BR">>
      [] code = "sr-Latn" -> <<"sr", "Latn">>
      [] code = "zh-TW-Hant" -> <<"zh", "TW", "Hant">>
      [] code = "English" -> <<"english">>
      [] code = "Portuguese" -> <<"portuguese">>
      [] OTHER -> <<code>>

\* babelfish.Country(subtag.upper()): ValueError unless it is an ISO-3166 code
ValidCountry(subtag) == subtag \in {"BR", "PT", "TW", "CN"}

\* babelfish.Script(subtag.capitalize()): ValueError unless it is an
\* ISO-15924 code
ValidScript(subtag) == subtag \in {"Latn", "Cyrl", "Hant"}

\* the while loop of fromietf over the subtags after the language: a
\* two-letter subtag is the country, any other the script, and nothing may
\* follow a script
RECURSIVE IetfSubtags(_, _)
IetfSubtags(language, subtags) ==
    IF subtags = <<>> THEN Conv(language)
    ELSE IF Len(Head(subtags)) = 2
    THEN IF ValidCountry(Head(subtags))
         THEN IetfSubtags([language EXCEPT !.country = Head(subtags)], Tail(subtags))
         ELSE ConvRaised
    ELSE IF ~ValidScript(Head(subtags)) \/ Tail(subtags) # <<>> THEN ConvRaised
    ELSE Conv([language EXCEPT !.script = Head(subtags)])

\* the language subtag of fromietf: fromalpha2 for two letters, else
\* Language(alpha3)
IetfLanguage(subtag) ==
    IF Len(subtag) = 2 THEN fromalpha2(subtag) ELSE LanguageOfAlpha3(subtag)

\* the rest of fromietf once its language subtag is converted
IetfRest(converted, subtags) ==
    IF converted.raised THEN ConvRaised ELSE IetfSubtags(converted.language, subtags)

\* babelfish.Language.fromietf
fromietf(code) == IetfRest(IetfLanguage(Head(Subtags(code))), Tail(Subtags(code)))

\* the first converter that does not raise, if the next ones are tried
FirstConv(first, rest) == IF first.raised THEN rest ELSE first

\* the loop over fromietf, fromname, Language, fromalpha2 with its break
Convert(code) ==
    FirstConv(fromietf(code),
              FirstConv(fromname(code),
                        FirstConv(LanguageOfAlpha3(code), fromalpha2(code))))

\* the set {stream.languageCode, stream.language, stream.languageTag} without
\* the codes `if not code` skips
Codes(self) ==
    {code[1] : code \in {c \in {self.languageCode, self.language, self.languageTag} :
                             c # None /\ c[1] # ""}}

\* the set languages after the first loop
Converted(self) ==
    {Convert(code).language : code \in {c \in Codes(self) : ~Convert(c).raised}}

\* babelfish.Language.alpha2, defined for the languages with an ISO-639-1
\* code, else the alpha3 that __str__ falls back to
Alpha2OrAlpha3(language) ==
    CASE language.alpha3 = "eng" -> "en"
      [] language.alpha3 = "por" -> "pt"
      [] language.alpha3 = "srp" -> "sr"
      [] language.alpha3 = "zho" -> "zh"
      [] OTHER -> language.alpha3

\* str(lang), as the subtags '-' joins
Str(language) ==
    <<Alpha2OrAlpha3(language)>>
        \o (IF language.country # "None" THEN <<language.country>> ELSE <<>>)
        \o (IF language.script # "None" THEN <<language.script>> ELSE <<>>)

\* str(lang).count('-')
num_tags(language) == Len(Str(language)) - 1

\* max_num_tags after the second loop
max_num_tags(languages) ==
    IF languages = {} THEN 0
    ELSE CHOOSE n \in {num_tags(l) : l \in languages} :
             \A l \in languages : num_tags(l) <= n

\* the lists that hold each element of the set once: the orders in which a
\* set can be iterated
Iterations(set) ==
    {xs \in [1..Cardinality(set) -> set] : \A x \in set : \E i \in DOMAIN xs : xs[i] = x}

\* the second loop keeping every language, whatever its number of subtags
EveryLanguage(languages) == Iterations(languages)

\* more_specific[max_num_tags], one list for each order in which the set
\* languages can be iterated (empty when the set is)
MostSpecific(languages) ==
    Iterations({l \in languages : num_tags(l) = max_num_tags(languages)})

\* plexy.utils.get_expected_languages: the lists it can return
get_expected_languages(self) == MostSpecific(Converted(self))

-----------------------------------------------------------------------------
(* The parts and preferences save_preferences is run on *)

\* what Plex reports of a stream, before its place in the part (index) and
\* whether it is the selected one are known
VideoKind(language, default) ==
    Stream(0, language, FALSE, FALSE, FALSE, default, FALSE, "None")

AudioKind(language, commentary, codec) ==
    Stream(0, language, commentary, FALSE, FALSE, FALSE, FALSE, codec)

SubtitleKind(language, hearing_impaired, codec) ==
    Stream(0, language, FALSE, FALSE, hearing_impaired, FALSE, FALSE, codec)

\* the streams of one kind of a part: stream i has index first + i - 1 and
\* at most one stream, the one at position selection, is selected
Streams(kinds, first, selection) ==
    [i \in 1..Len(kinds) |->
        [kinds[i] EXCEPT !.index = first + i - 1, !.selected = (i = selection)]]

\* no codec option on the command line
NoCodecs ==
    [audio_codecs |-> {}, excluded_audio_codecs |-> {},
     subtitle_codecs |-> {}, excluded_subtitle_codecs |-> {}]

\* --audio-codec aac --subtitle-codec srt
AcceptedCodecs ==
    [audio_codecs |-> {"aac"}, excluded_audio_codecs |-> {},
     subtitle_codecs |-> {"srt"}, excluded_subtitle_codecs |-> {}]

\* --excluded-audio-codec aac --excluded-subtitle-codec srt
ExcludedCodecs ==
    [audio_codecs |-> {}, excluded_audio_codecs |-> {"aac"},
     subtitle_codecs |-> {}, excluded_subtitle_codecs |-> {"srt"}]

\* Preferences.__init__
Preferences(watching_preference, language, codecs, keep_selected_audio, keep_selected_subtitle, force_subtitles) ==
    [watching_preference |-> watching_preference,
     language |-> language,
     audio_codecs |-> codecs.audio_codecs,
     excluded_audio_codecs |-> codecs.excluded_audio_codecs,
     subtitle_codecs |-> codecs.subtitle_codecs,
     excluded_subtitle_codecs |-> codecs.excluded_subtitle_codecs,
     keep_selected_audio |-> keep_selected_audio,
     keep_selected_subtitle |-> keep_selected_subtitle,
     force_subtitles |-> force_subtitles]

\* Parts whose streams differ in language and role, under every watching
\* preference, desired language (also none) and keep / force flag, with no
\* codec option
RolesScenario ==
    [video |-> {VideoKind(jpn, TRUE), VideoKind(eng, FALSE), VideoKind(und, FALSE)},
     audio |-> {AudioKind(l, c, "aac") : l \in {eng, jpn}, c \in BOOLEAN},
     subtitle |-> {SubtitleKind(eng, FALSE, "srt"), SubtitleKind(eng, TRUE, "srt"),
                   SubtitleKind(jpn, FALSE, "srt")},
     preferences |->
        {Preferences(w, l, NoCodecs, ka, ks, f) :
            w \in {"original", "dubbed"}, l \in {NoLanguage, eng},
            ka \in BOOLEAN, ks \in BOOLEAN, f \in BOOLEAN}]

\* Parts whose streams differ in language and codec, under the codec options
CodecsScenario ==
    [video |-> {VideoKind(jpn, TRUE)},
     audio |-> {AudioKind(l, FALSE, k) : l \in {eng, jpn}, k \in {"aac", "ac3"}},
     subtitle |-> {SubtitleKind(l, FALSE, k) : l \in {eng, jpn}, k \in {"srt", "pgs"}},
     preferences |->
        {Preferences(w, l, c, FALSE, FALSE, f) :
            w \in {"original", "dubbed"}, l \in {eng},
            c \in {AcceptedCodecs, ExcludedCodecs}, f \in BOOLEAN}]

\* an audio stream that is or is not the default one of its part
DefaultAudioKind(language, default) ==
    Stream(0, language, FALSE, FALSE, FALSE, default, FALSE, "aac")

\* Parts whose video and audio streams differ in language and in being the
\* default stream, under the ORIGINAL preference
DefaultsScenario ==
    [video |-> {VideoKind(jpn, TRUE), VideoKind(eng, FALSE)},
     audio |-> {DefaultAudioKind(l, d) : l \in {eng, jpn}, d \in BOOLEAN},
     subtitle |-> {SubtitleKind(eng, FALSE, "srt")},
     preferences |->
        {Preferences("original", eng, NoCodecs, FALSE, FALSE, f) : f \in BOOLEAN}]

\* Parts whose audio streams differ in language and commentary, under the
\* DUBBED preference with a desired language that no stream has
OtherLanguageScenario ==
    [video |-> {VideoKind(jpn, TRUE)},
     audio |-> {AudioKind(l, c, "aac") : l \in {eng, jpn}, c \in BOOLEAN},
     subtitle |-> {SubtitleKind(eng, FALSE, "srt")},
     preferences |->
        {Preferences("dubbed", por, NoCodecs, FALSE, FALSE, f) : f \in BOOLEAN}]

Scenarios == {RolesScenario, CodecsScenario, DefaultsScenario, OtherLanguageScenario}

-----------------------------------------------------------------------------
(* The state machine: a part is loaded, then save_preferences runs on it,  *)
(* and runs again on the streams as the run before left them               *)

NoLocals ==
    [previous_selected_audio |-> NoStream, previous_selected_subtitle |-> NoStream,
     selected_audio |-> NoStream, selected_subtitle |-> NoStream]

\* nothing was handed to to_filters, and it returned nothing
IdleFilters ==
    /\ criteria = Criteria(<<>>, "None", "None")
    /\ library_type = "movie"
    /\ filters = NotReturned

\* no string was handed to Title.from_string, and nothing was returned
IdleParse ==
    /\ typed_title = <<>>
    /\ parsed_title = NotParsed

\* no stream was handed to plexy.utils, and nothing was returned
IdleStream ==
    /\ raw_stream = MediaPartStream(None, None, None, None, None, None)
    /\ stream_out = NotCalled

\* nothing was handed to language_cmp, and it returned nothing
IdleCompare ==
    /\ cmp_args = [a |-> NoStream, b |-> NoStream, c |-> NoStream,
                   desired_language |-> NoLanguage]
    /\ cmp_out = NoComparison


InitPart ==
    /\ \E scenario \in Scenarios :
       \E nv \in 0..MaxStreams :
       \E na \in 0..(MaxStreams - nv) :
       \E ns \in 0..(MaxStreams - nv - na) :
       \E v \in [1..nv -> scenario.video], a \in [1..na -> scenario.audio],
          s \in [1..ns -> scenario.subtitle] :
       \E sa \in 0..na, ss \in 0..ns :
           /\ video_streams = Streams(v, 0, NoStream)
           /\ audio_streams = Streams(a, nv, sa)
           /\ subtitle_streams = Streams(s, nv + na, ss)
           /\ preferences \in scenario.preferences
    /\ status = "idle"
    /\ events = <<>>
    /\ locals = NoLocals
    /\ result = NoChange
    /\ changes = <<>>

Init ==
    /\ InitPart
    /\ IdleParse
    /\ IdleFilters
    /\ IdleCompare
    /\ IdleStream

\* the part and the observations after a call of save_preferences that
\* ended as out
Ends(out) ==
    /\ status' = out.status
    /\ events' = out.events
    /\ audio_streams' = out.audio_streams
    /\ subtitle_streams' = out.subtitle_streams
    /\ locals' = out.locals
    /\ result' = out.result
    /\ changes' = IF out.result.change THEN Append(changes, out.result) ELSE changes

\* one call of VideoPart.save_preferences(preferences)
Resolve ==
    /\ status # "raised"
    /\ Len(changes) < MaxChanges
    /\ Ends(save_preferences(video_streams, audio_streams, subtitle_streams, preferences))
    /\ UNCHANGED <<video_streams, preferences>>
    /\ UNCHANGED <<filterVars, cmpVars, streamVars, parseVars>>

Next == Resolve

Spec == Init /\ [][Next]_vars

-----------------------------------------------------------------------------
(* language_cmp on three streams of a part *)

\* the languages of the streams compared
ComparedLanguages == {eng, jpn, zhoTW, zhoCN, zhoHantTW, srpLatn, srpCyrl}

\* the desired languages they are compared under
DesiredLanguages == {eng, zhoTW, zhoHantTW, Language("srp", "RS", "Latn")}

\* the stream indexes: a, b and c are three streams of one part
Indexes == {1, 2, 3}

ComparedStream(index, language, commentary) ==
    Stream(index, language, commentary, FALSE, FALSE, FALSE, FALSE, "aac")

\* a part with no stream, on which save_preferences is not run
IdlePart ==
    /\ video_streams = <<>>
    /\ audio_streams = <<>>
    /\ subtitle_streams = <<>>
    /\ preferences = Preferences("dubbed", eng, NoCodecs, FALSE, FALSE, FALSE)
    /\ status = "idle"
    /\ events = <<>>
    /\ locals = NoLocals
    /\ result = NoChange
    /\ changes = <<>>

InitCompare ==
    /\ IdlePart
    /\ IdleParse
    /\ IdleFilters
    /\ IdleStream
    /\ \E ia, ib, ic \in Indexes :
       \E la, lb, lc \in ComparedLanguages :
       \E ca, cb, cc \in BOOLEAN :
       \E desired_language \in DesiredLanguages :
           /\ ia # ib /\ ia # ic /\ ib # ic
           /\ cmp_args = [a |-> ComparedStream(ia, la, ca),
                          b |-> ComparedStream(ib, lb, cb),
                          c |-> ComparedStream(ic, lc, cc),
                          desired_language |-> desired_language]
    /\ cmp_out = NoComparison

\* language_cmp called on each pair of a, b, c
Compare ==
    /\ ~cmp_out.done
    /\ LET a == cmp_args.a
           b == cmp_args.b
           c == cmp_args.c
           desired_language == cmp_args.desired_language
       IN  cmp_out' = [done |-> TRUE,
                       ab |-> language_cmp(a, b, desired_language),
                       ba |-> language_cmp(b, a, desired_language),
                       bc |-> language_cmp(b, c, desired_language),
                       cb |-> language_cmp(c, b, desired_language),
                       ac |-> language_cmp(a, c, desired_language),
                       ca |-> language_cmp(c, a, desired_language)]
    /\ UNCHANGED <<partVars, filterVars, streamVars, parseVars, cmp_args>>

NextCompare == Compare

SpecCompare == InitCompare /\ [][NextCompare]_vars

-----------------------------------------------------------------------------
(* language_cmp on two streams of a part, with every role flag *)

\* a third stream of the part, the same in every comparison of a with b
ThirdStream == Stream(3, eng, FALSE, FALSE, FALSE, FALSE, FALSE, "aac")

\* the desired languages of a pair: language_cmp is also built for no language
PairDesiredLanguages == DesiredLanguages \cup {NoLanguage}

InitPair ==
    /\ IdlePart
    /\ IdleParse
    /\ IdleFilters
    /\ IdleStream
    /\ \E ia, ib \in Indexes \ {ThirdStream.index} :
       \E la, lb \in ComparedLanguages :
       \E ca, cb, cca, ccb, hia, hib \in BOOLEAN :
       \E desired_language \in PairDesiredLanguages :
           /\ ia # ib
           /\ cmp_args = [a |-> Stream(ia, la, ca, cca, hia, FALSE, FALSE, "aac"),
                          b |-> Stream(ib, lb, cb, ccb, hib, FALSE, FALSE, "aac"),
                          c |-> ThirdStream,
                          desired_language |-> desired_language]
    /\ cmp_out = NoComparison

SpecPair == InitPair /\ [][NextCompare]_vars

-----------------------------------------------------------------------------
(* Criteria.to_filters on the titles Title.from_string can produce *)

\* the names of the titles
Names == {"A", "B"}

\* (?P<year>\d{4}): absent, 0000 or 1999
Years == {None, Some(0), Some(1999)}

\* s(?P<season>\d+)(?:e(?P<episode>\d+))?: an episode only after a season
SeasonsEpisodes ==
    {<<None, None>>, <<Some(0), None>>, <<Some(1), None>>,
     <<Some(1), Some(0)>>, <<Some(0), Some(2)>>}

Titles ==
    {Title(name, year, se[1], se[2]) : name \in Names, year \in Years, se \in SeasonsEpisodes}

\* --newer-than / --older-than
Ages == {"None", "1w"}

InitFilters ==
    /\ IdlePart
    /\ IdleParse
    /\ IdleCompare
    /\ IdleStream
    /\ \E n \in 0..MaxTitles :
       \E titles \in [1..n -> Titles] :
       \E newer_than, older_than \in Ages :
           criteria = Criteria(titles, newer_than, older_than)
    /\ library_type \in {"movie", "episode"}
    /\ filters = NotReturned

\* one call of Criteria.to_filters(lib_type)
ToFilters ==
    /\ ~filters.returned
    /\ filters' = Returned(to_filters(criteria, library_type))
    /\ UNCHANGED <<partVars, cmpVars, streamVars, parseVars, criteria, library_type>>

NextFilters == ToFilters

SpecFilters == InitFilters /\ [][NextFilters]_vars

-----------------------------------------------------------------------------
(* plexy.utils on the fields of a stream *)

\* stream.languageCode, stream.language, stream.languageTag
LanguageFields ==
    {None, Some(""), Some("eng"), Some("en"), Some("English"), Some("por"),
     Some("pt-BR"), Some("sr-Latn"), Some("zh-TW-Hant"), Some("xx")}

\* stream.extendedDisplayTitle, stream.displayTitle, stream.title
TitleFields == {None, Some(""), Some("a"), Some("b"), Some("ab"), Some("abc")}

InitLanguages ==
    /\ IdlePart
    /\ IdleParse
    /\ IdleFilters
    /\ IdleCompare
    /\ \E languageCode, language, languageTag \in LanguageFields :
           raw_stream = MediaPartStream(languageCode, language, languageTag,
                                        None, None, None)
    /\ stream_out = NotCalled

\* one call of get_expected_languages(stream)
GetExpectedLanguages ==
    /\ stream_out.called = "none"
    /\ \E value \in get_expected_languages(raw_stream) :
           stream_out' = [called |-> "get_expected_languages", value |-> value]
    /\ UNCHANGED <<partVars, filterVars, cmpVars, parseVars, raw_stream>>

NextLanguages == GetExpectedLanguages

SpecLanguages == InitLanguages /\ [][NextLanguages]_vars

InitTitle ==
    /\ IdlePart
    /\ IdleParse
    /\ IdleFilters
    /\ IdleCompare
    /\ \E extendedDisplayTitle, displayTitle, title \in TitleFields :
           raw_stream = MediaPartStream(None, None, None,
                                        extendedDisplayTitle, displayTitle, title)
    /\ stream_out = NotCalled

\* one call of get_title(stream)
GetTitle ==
    /\ stream_out.called = "none"
    /\ stream_out' = [called |-> "get_title", value |-> get_title(raw_stream)]
    /\ UNCHANGED <<partVars, filterVars, cmpVars, parseVars, raw_stream>>

NextTitle == GetTitle

SpecTitle == InitTitle /\ [][NextTitle]_vars

-----------------------------------------------------------------------------
(* Title.from_string on the titles typed on the command line *)

\* the names typed
TypedNames == {<<"A">>, <<"A", " ", "B">>, <<"S", "1">>}

\* the digit strings typed after a marker: one to MaxDigits digits
Digits == UNION {[1..n -> {"0", "1", "2"}] : n \in 1..MaxDigits}

\* a marker in either case, followed by digits
Marked(markers) == {<<marker>> \o digits : marker \in markers, digits \in Digits}

\* the optional season, with an optional episode behind it
TypedNumbers ==
    {<<>>} \cup Marked({"s", "S"})
           \cup {season \o episode : season \in Marked({"s", "S"}), episode \in Marked({"e", "E"})}

\* the optional year
TypedYears == {<<>>, <<"(", "1", "9", "9", "9", ")">>, <<"(", "1", "9", "9", ")">>}

\* the titles typed: name, year and numbers with or without spaces between them
TypedTitles ==
    {name \o before \o year \o after \o numbers :
         name \in TypedNames, before \in {<<>>, <<" ">>}, year \in TypedYears,
         after \in {<<>>, <<" ">>}, numbers \in TypedNumbers}

InitParse ==
    /\ IdlePart
    /\ IdleFilters
    /\ IdleCompare
    /\ IdleStream
    /\ typed_title \in TypedTitles
    /\ parsed_title = NotParsed

\* TitleParamType.convert: Title.from_string on the string as typed
Parse ==
    /\ ~parsed_title.called
    /\ parsed_title' = [called |-> TRUE, raised |-> from_string(typed_title).raised,
                        value |-> from_string(typed_title).value]
    /\ UNCHANGED <<partVars, filterVars, cmpVars, streamVars, typed_title>>

NextParse == Parse

SpecParse == InitParse /\ [][NextParse]_vars

-----------------------------------------------------------------------------
(* Properties of save_preferences *)

\* the mutations among the events of the last run, in program order
MutationCalls == SelectSeq(events, LAMBDA e : e.op \in Mutations)

CallsOf(ops) == SelectSeq(events, LAMBDA e : e.op \in ops)

\* the language of the stream at position stream, None for no stream
LanguageOf(streams, stream) ==
    IF stream = NoStream THEN NoLanguage ELSE streams[stream].language

\* C1: save_preferences is idempotent: once a run has returned and its
\* mutations are applied to the part, a further run with the same
\* preferences issues no mutation and returns no Change.
C1_ResolveIdempotent ==
    [][status = "returned" =>
          (MutationCalls' = <<>> /\ result' = NoChange /\ changes' = changes)]_vars

\* a second run has returned after a first run that changed both the audio
\* and the subtitle
C1_Witness ==
    /\ status = "returned"
    /\ Len(changes) = 1
    /\ changes[1].audio # changes[1].previous_audio
    /\ changes[1].subtitle # changes[1].previous_subtitle
    /\ locals.previous_selected_audio = changes[1].audio
    /\ locals.previous_selected_subtitle = changes[1].subtitle
    /\ MutationCalls = <<>>
    /\ result = NoChange

\* C2: the ranker and the resolver never fail: whatever the part and the
\* preferences (also with no desired language), save_preferences returns
\* instead of raising.
C2_NeverFails == status # "raised"

\* C3 as claimed: no mutation is issued before both the audio and the
\* subtitle choice have been determined, so a run that stops part-way has
\* issued no mutation.
C3_ChangeComputedBeforeAnyMutation ==
    /\ \A i \in 1..Len(events) :
           events[i].op \in Mutations =>
               /\ \E j \in 1..(i - 1) : events[j].op = "audio_chosen"
               /\ \E k \in 1..(i - 1) : events[k].op = "subtitle_chosen"
    /\ status = "raised" => MutationCalls = <<>>

\* C3 as amended: every mutation is issued only after the choice of its own
\* track kind has been determined and carries that choice: select_audio
\* right after the audio choice, select_subtitle or unselect_subtitle after
\* both choices; a run that stops part-way has issued no subtitle mutation.
C3_MutationAfterOwnChoice ==
    /\ \A i \in 1..Len(events) :
           /\ events[i].op = "select_audio" =>
                  /\ i > 1
                  /\ events[i - 1] = Event("audio_chosen", events[i].stream)
           /\ events[i].op \in {"select_subtitle", "unselect_subtitle"} =>
                  /\ i > 1
                  /\ events[i - 1] = Event("subtitle_chosen", events[i].stream)
                  /\ \E j \in 1..(i - 1) : events[j].op = "audio_chosen"
    /\ status = "raised" => CallsOf({"select_subtitle", "unselect_subtitle"}) = <<>>

\* select_audio has been issued before the subtitle choice was determined,
\* and a subtitle was selected after it
C3_Witness ==
    /\ Len(events) = 4
    /\ events[2].op = "select_audio"
    /\ events[3].op = "subtitle_chosen"
    /\ events[4].op = "select_subtitle"

\* C4: one run issues at most one select_audio, and at most one call among
\* select_subtitle and unselect_subtitle.
C4_AtMostOneMutationPerKind ==
    /\ Len(CallsOf({"select_audio"})) <= 1
    /\ Len(CallsOf({"select_subtitle", "unselect_subtitle"})) <= 1

\* a run that issued one mutation of each kind
C4_Witness ==
    /\ status = "returned"
    /\ Len(CallsOf({"select_audio"})) = 1
    /\ Len(CallsOf({"unselect_subtitle"})) = 1

\* C5: save_preferences returns a Change exactly when the audio or the
\* subtitle it chose is not the one selected before the call, and the Change
\* carries the selection before the call and the chosen streams.
C5_ChangeIffSelectionDiffers ==
    status = "returned" =>
        /\ result.change <=>
               \/ locals.selected_audio # locals.previous_selected_audio
               \/ locals.selected_subtitle # locals.previous_selected_subtitle
        /\ result.change =>
               /\ result.previous_audio = locals.previous_selected_audio
               /\ result.previous_subtitle = locals.previous_selected_subtitle
               /\ result.audio = locals.selected_audio
               /\ result.subtitle = locals.selected_subtitle
        /\ ~result.change => result = NoChange

\* a run that kept the audio and changed the subtitle returned a Change
C5_Witness ==
    /\ status = "returned"
    /\ result.change
    /\ result.audio = result.previous_audio
    /\ result.audio # NoStream
    /\ result.subtitle # result.previous_subtitle
    /\ result.previous_subtitle # NoStream

\* C7's case: the ORIGINAL preference, both keep flags off, no codec option,
\* an original language O that is not the desired language L, an audio
\* stream in O and a subtitle stream in L
C7_Case ==
    /\ preferences.watching_preference = "original"
    /\ ~preferences.keep_selected_audio
    /\ ~preferences.keep_selected_subtitle
    /\ preferences.audio_codecs = {} /\ preferences.excluded_audio_codecs = {}
    /\ preferences.subtitle_codecs = {} /\ preferences.excluded_subtitle_codecs = {}
    /\ original_language(video_streams, audio_streams) # preferences.language
    /\ \E i \in 1..Len(audio_streams) :
           audio_streams[i].language = original_language(video_streams, audio_streams)
    /\ \E j \in 1..Len(subtitle_streams) :
           subtitle_streams[j].language = preferences.language

\* C7: in that case save_preferences returns, the audio stream it chose (and
\* leaves selected) has the original language and the subtitle stream it
\* chose (and leaves selected) has the desired language.
C7_OriginalAudioDesiredSubtitle ==
    (status # "idle" /\ C7_Case) =>
        /\ status = "returned"
        /\ LanguageOf(audio_streams, locals.selected_audio)
               = original_language(video_streams, audio_streams)
        /\ LanguageOf(subtitle_streams, locals.selected_subtitle) = preferences.language
        /\ selected_audio(audio_streams) = locals.selected_audio
        /\ selected_subtitle(subtitle_streams) = locals.selected_subtitle

\* the original language came from a video stream, and the run selected
\* both a new audio and a new subtitle stream
C7_Witness ==
    /\ status = "returned"
    /\ C7_Case
    /\ Len(video_streams) >= 1
    /\ LanguageTruthy(video_streams[1].language)
    /\ Len(CallsOf({"select_audio"})) = 1
    /\ Len(CallsOf({"select_subtitle"})) = 1

\* the positions of the streams that have a language and whose default flag
\* is the given one
WithLanguage(streams, default) ==
    {i \in 1..Len(streams) :
         LanguageTruthy(streams[i].language) /\ streams[i].default = default}

\* the language of the first stream among the positions, None for no position
FirstLanguage(streams, positions) ==
    IF positions = {} THEN NoLanguage
    ELSE streams[CHOOSE i \in positions : \A j \in positions : i <= j].language

\* the language of the first default stream that has one, else of the first
\* other stream that has one, else None
DefaultFirstLanguage(streams) ==
    IF WithLanguage(streams, TRUE) # {}
    THEN FirstLanguage(streams, WithLanguage(streams, TRUE))
    ELSE FirstLanguage(streams, WithLanguage(streams, FALSE))

\* save_preferences ran under the ORIGINAL preference and ranked the audio
\* streams
C17_Case ==
    /\ status # "idle"
    /\ preferences.watching_preference = "original"
    /\ ~preferences.keep_selected_audio

\* C17 as stated: under the ORIGINAL preference the target language used to
\* rank audio is the language of the first video stream marked default, else
\* of the first audio stream marked default, else null; a stream that is not
\* marked default never supplies it
C17_TargetFromDefaultStreams ==
    C17_Case =>
        target_language(video_streams, audio_streams, preferences)
            = IF WithLanguage(video_streams, TRUE) # {}
              THEN FirstLanguage(video_streams, WithLanguage(video_streams, TRUE))
              ELSE FirstLanguage(audio_streams, WithLanguage(audio_streams, TRUE))

\* C17 amended: under the ORIGINAL preference the target language used to
\* rank audio is taken from the video streams when one of them has a
\* language, else from the audio streams, else it is null; within a kind it
\* is the language of the first stream marked default, and of the first
\* stream of the kind when none is marked default
C17_TargetDefaultStreamsFirst ==
    C17_Case =>
        target_language(video_streams, audio_streams, preferences)
            = IF WithLanguage(video_streams, TRUE) \cup WithLanguage(video_streams, FALSE) # {}
              THEN DefaultFirstLanguage(video_streams)
              ELSE DefaultFirstLanguage(audio_streams)

\* a video stream that is not marked default supplied the target language
\* although an audio stream in another language is marked default, and the
\* audio stream chosen has the language of that video stream
C17_Witness ==
    /\ C17_Case
    /\ status = "returned"
    /\ WithLanguage(video_streams, TRUE) = {}
    /\ WithLanguage(video_streams, FALSE) # {}
    /\ \E i \in WithLanguage(audio_streams, TRUE) :
           audio_streams[i].language # video_streams[1].language
    /\ audio_streams[1].language # video_streams[1].language
    /\ locals.selected_audio # NoStream
    /\ audio_streams[locals.selected_audio].language = video_streams[1].language

\* C18's case: the run chose its audio, the keep-subtitle override does not
\* apply, the language of the chosen audio (None for no audio) equals
\* preferences.language and force_subtitles is off
C18_Case ==
    /\ CallsOf({"audio_chosen"}) # <<>>
    /\ ~(preferences.keep_selected_subtitle /\ locals.previous_selected_subtitle # NoStream)
    /\ selected_audio_lang(audio_streams, locals.selected_audio) = preferences.language
    /\ ~preferences.force_subtitles

\* C18: when the keep-subtitle override does not apply, the chosen audio's
\* language equals preferences.language and force_subtitles is false,
\* save_preferences ends with no subtitle chosen, issues unselect_subtitle
\* exactly when a subtitle was selected before the call, and never issues
\* select_subtitle
C18_AudioMatchesNoSubtitle ==
    C18_Case =>
        /\ status = "returned"
        /\ locals.selected_subtitle = NoStream
        /\ selected_subtitle(subtitle_streams) = NoStream
        /\ CallsOf({"select_subtitle"}) = <<>>
        /\ Len(CallsOf({"unselect_subtitle"}))
               = IF locals.previous_selected_subtitle # NoStream THEN 1 ELSE 0

\* the run selected a new audio stream in the desired language and
\* unselected the subtitle, although a subtitle stream in the desired
\* language is there
C18_Witness ==
    /\ C18_Case
    /\ status = "returned"
    /\ locals.selected_audio # NoStream
    /\ locals.selected_audio # locals.previous_selected_audio
    /\ locals.previous_selected_subtitle # NoStream
    /\ \E j \in 1..Len(subtitle_streams) :
           subtitle_streams[j].language = preferences.language
    /\ Len(CallsOf({"unselect_subtitle"})) = 1

\* the same case with no subtitle selected before the call: nothing is
\* issued for the subtitle
C18_NothingSelectedBefore ==
    /\ C18_Case
    /\ status = "returned"
    /\ locals.selected_audio # NoStream
    /\ locals.previous_selected_subtitle = NoStream
    /\ Len(subtitle_streams) >= 1
    /\ CallsOf({"select_subtitle", "unselect_subtitle"}) = <<>>

\* the audio streams the codec filter lets through
AudioCandidates ==
    Candidates(audio_streams, preferences.audio_codecs, preferences.excluded_audio_codecs)

\* C19: with keep_selected_audio false, the audio stream save_preferences
\* chooses is never a commentary stream when a stream without commentary in
\* the same language also passed the codec filter, whatever the order and
\* the indexes of the candidates and the target language are
C19_PlainBeforeCommentary ==
    (/\ CallsOf({"audio_chosen"}) # <<>>
     /\ ~preferences.keep_selected_audio
     /\ locals.selected_audio # NoStream
     /\ audio_streams[locals.selected_audio].commentary) =>
        ~\E k \in 1..Len(AudioCandidates) :
             /\ ~audio_streams[AudioCandidates[k]].commentary
             /\ audio_streams[AudioCandidates[k]].language
                    = audio_streams[locals.selected_audio].language

\* C8's case: the DUBBED preference, and the audio stream selected before
\* the call has the desired language
C8_Case ==
    /\ status # "idle"
    /\ preferences.watching_preference = "dubbed"
    /\ locals.previous_selected_audio # NoStream
    /\ audio_streams[locals.previous_selected_audio].language = preferences.language

\* C8 as claimed: in that case save_preferences issues no mutation and
\* returns no Change.
C8_DubbedAlreadySelectedNoChange ==
    C8_Case => (MutationCalls = <<>> /\ result = NoChange)

\* what C8 leaves out: the selected stream is the one choose_audio_track
\* returns (keep_selected_audio, or it passes the codec options and no other
\* audio stream has the desired language), subtitles are not forced, and no
\* subtitle is to be unselected
C8_NothingElseToDo ==
    /\ \/ preferences.keep_selected_audio
       \/ /\ CodecAccepted(audio_streams[locals.previous_selected_audio],
                           preferences.audio_codecs, preferences.excluded_audio_codecs)
          /\ \A i \in 1..Len(audio_streams) :
                 i # locals.previous_selected_audio =>
                     audio_streams[i].language # preferences.language
    /\ ~preferences.force_subtitles
    /\ \/ locals.previous_selected_subtitle = NoStream
       \/ preferences.keep_selected_subtitle

\* C8 as amended: under DUBBED, when the selected audio stream has the
\* desired language and is the only one that has it and passes the codec
\* options (or keep_selected_audio is set), force_subtitles is off and no
\* subtitle is selected (or keep_selected_subtitle is set), save_preferences
\* returns without issuing a mutation and returns no Change.
C8_DubbedOnlyMatchNoChange ==
    (C8_Case /\ C8_NothingElseToDo) =>
        (status = "returned" /\ MutationCalls = <<>> /\ result = NoChange)

\* the selected audio stream was ranked against another audio stream, with
\* a subtitle stream in the part, and nothing changed
C8_Witness ==
    /\ C8_Case
    /\ C8_NothingElseToDo
    /\ ~preferences.keep_selected_audio
    /\ ~preferences.keep_selected_subtitle
    /\ Len(audio_streams) >= 2
    /\ locals.previous_selected_audio = 2
    /\ Len(subtitle_streams) >= 1
    /\ status = "returned"

\* C9: keep_selected_audio freezes the audio selection: no select_audio is
\* issued and the chosen audio is the one selected before the call;
\* keep_selected_subtitle freezes a selected subtitle: neither
\* select_subtitle nor unselect_subtitle is issued and the chosen subtitle
\* is the one selected before the call, whatever the audio language and
\* force_subtitles are.
C9_KeepFlagsFreeze ==
    status # "idle" =>
        /\ preferences.keep_selected_audio =>
               /\ CallsOf({"select_audio"}) = <<>>
               /\ locals.selected_audio = locals.previous_selected_audio
               /\ selected_audio(audio_streams) = locals.previous_selected_audio
        /\ (preferences.keep_selected_subtitle
              /\ locals.previous_selected_subtitle # NoStream) =>
               /\ CallsOf({"select_subtitle", "unselect_subtitle"}) = <<>>
               /\ selected_subtitle(subtitle_streams) = locals.previous_selected_subtitle
               /\ status = "returned" =>
                      locals.selected_subtitle = locals.previous_selected_subtitle

\* the selected subtitle was kept although subtitles are forced, another
\* subtitle stream comes first in the part and a new audio was selected
C9_Witness ==
    /\ status = "returned"
    /\ preferences.keep_selected_subtitle
    /\ preferences.force_subtitles
    /\ locals.previous_selected_subtitle = 2
    /\ locals.selected_subtitle = 2
    /\ Len(CallsOf({"select_audio"})) = 1

-----------------------------------------------------------------------------
(* Properties of language_cmp *)

\* no comparison of the pairs raised
NoneRaised ==
    /\ ~cmp_out.ab.raised /\ ~cmp_out.ba.raised
    /\ ~cmp_out.bc.raised /\ ~cmp_out.cb.raised
    /\ ~cmp_out.ac.raised /\ ~cmp_out.ca.raised

\* compare(x, y) = -compare(y, x) on the pairs of a, b, c
Antisymmetric ==
    /\ cmp_out.ab.value = -cmp_out.ba.value
    /\ cmp_out.bc.value = -cmp_out.cb.value
    /\ cmp_out.ac.value = -cmp_out.ca.value

\* compare(a, b) <= 0 and compare(b, c) <= 0 imply compare(a, c) <= 0
Transitive ==
    (cmp_out.ab.value <= 0 /\ cmp_out.bc.value <= 0) => cmp_out.ac.value <= 0

\* C6: under a non-null desired language, language_cmp is a total order on
\* streams with distinct indexes: compare(a,b) = -compare(b,a), and
\* compare(a,b) <= 0 with compare(b,c) <= 0 implies compare(a,c) <= 0.
C6_TotalOrder ==
    (cmp_out.done /\ cmp_args.desired_language # NoLanguage) =>
        (NoneRaised /\ Antisymmetric /\ Transitive)

-----------------------------------------------------------------------------
(* Properties of to_filters *)

\* the filter has the predicate key exactly when the Optional[int] is
\* non-null, and then with its value
PredicateIffSet(filter, key, optional) ==
    /\ HasKey(filter, key) <=> optional # None
    /\ HasKey(filter, key) => filter[key] = optional[1]

\* C10: when to_filters emits one filter per title, the filter of a title
\* has the year predicate exactly when title.year is non-null, the season
\* predicate exactly when title.season is non-null and the episode predicate
\* exactly when title.episode is non-null, each with the title's value.
C10_PredicateIffNonNull ==
    (filters.returned /\ PerTitle(criteria, library_type)) =>
        LET kept == LoopTitles(matching_titles(criteria, library_type), library_type)
        IN  /\ Len(filters.value) = Len(kept)
            /\ \A i \in 1..Len(kept) :
                   /\ PredicateIffSet(filters.value[i], YearKey(library_type), kept[i].year)
                   /\ PredicateIffSet(filters.value[i], "season.index", kept[i].season)
                   /\ PredicateIffSet(filters.value[i], "episode.index", kept[i].episode)

\* the titles of the criteria that are relevant to the library type: MOVIE
\* drops every title with a season or an episode
Relevant ==
    IF library_type = "movie"
    THEN SelectSeq(criteria.titles, LAMBDA t : t.season = None /\ t.episode = None)
    ELSE criteria.titles

\* a title with neither year nor season nor episode
BareName(title) == title.year = None /\ title.season = None /\ title.episode = None

\* C11: to_filters returns exactly one filter, without name predicate, when
\* the criteria has no title; none when it has titles but none is relevant
\* to the library type; exactly one, whose name predicate lists all the
\* names, when every relevant title is a bare name; otherwise exactly one
\* per relevant title.
C11_FilterCount ==
    filters.returned =>
        IF criteria.titles = <<>>
        THEN /\ Len(filters.value) = 1
             /\ ~HasKey(filters.value[1], TitleKey(library_type))
        ELSE IF Relevant = <<>>
        THEN filters.value = <<>>
        ELSE IF \A i \in 1..Len(Relevant) : BareName(Relevant[i])
        THEN /\ Len(filters.value) = 1
             /\ HasKey(filters.value[1], TitleKey(library_type))
             /\ filters.value[1][TitleKey(library_type)]
                    = [i \in 1..Len(Relevant) |-> Relevant[i].name]
        ELSE Len(filters.value) = Len(Relevant)

\* a MOVIE compilation of two titles, of which the one with a season was
\* dropped and the other got its own filter
C11_Witness ==
    /\ filters.returned
    /\ library_type = "movie"
    /\ Len(criteria.titles) = 2
    /\ Len(Relevant) = 1
    /\ ~BareName(Relevant[1])
    /\ Len(filters.value) = 1

-----------------------------------------------------------------------------
(* Properties of plexy.utils *)

\* the languages the non-empty language fields of the stream resolve to
Resolved ==
    {Convert(field[1]).language :
        field \in {f \in {raw_stream.languageCode, raw_stream.language,
                          raw_stream.languageTag} :
                       f # None /\ f[1] # "" /\ ~Convert(f[1]).raised}}

\* the number of subtags (country, script) that qualify the language
Qualifiers(language) ==
    (IF language.country # "None" THEN 1 ELSE 0)
        + (IF language.script # "None" THEN 1 ELSE 0)

\* C12: get_expected_languages returns exactly the resolved languages that
\* have the maximum number of subtags among the resolved ones, each once,
\* and the empty list when no field resolves.
C12_MostSpecificResolved ==
    stream_out.called = "get_expected_languages" =>
        /\ {stream_out.value[i] : i \in 1..Len(stream_out.value)}
               = {l \in Resolved : \A m \in Resolved : Qualifiers(m) <= Qualifiers(l)}
        /\ \A i, j \in 1..Len(stream_out.value) :
               stream_out.value[i] = stream_out.value[j] => i = j
        /\ Resolved = {} => stream_out.value = <<>>

\* three fields resolved to three languages, and the bare one was removed
C12_Witness ==
    /\ stream_out.called = "get_expected_languages"
    /\ Cardinality(Resolved) = 3
    /\ Len(stream_out.value) = 2

\* extendedDisplayTitle, displayTitle, title: the order of priority
TitlesInOrder ==
    <<raw_stream.extendedDisplayTitle, raw_stream.displayTitle, raw_stream.title>>

\* the field is null or the empty string
NullOrEmpty(field) == field = None \/ field[1] = ""

\* the length of a field that is not null
Length(field) == Len(field[1])

\* the returned title is the longest of the fields that are neither null nor
\* empty, the first of them in the order of priority on equal length
LongestFirst ==
    \E i \in 1..3 :
        /\ stream_out.value = TitlesInOrder[i]
        /\ ~NullOrEmpty(TitlesInOrder[i])
        /\ \A j \in 1..3 :
               ~NullOrEmpty(TitlesInOrder[j]) =>
                   /\ Length(TitlesInOrder[j]) <= Length(TitlesInOrder[i])
                   /\ j < i => Length(TitlesInOrder[j]) < Length(TitlesInOrder[i])

\* C13 as claimed: get_title returns the longest non-null one of
\* extendedDisplayTitle, displayTitle and title, the first of them on equal
\* length, and null when all three are null or empty.
C13_LongestOrNull ==
    stream_out.called = "get_title" =>
        IF \A i \in 1..3 : NullOrEmpty(TitlesInOrder[i])
        THEN stream_out.value = None
        ELSE LongestFirst

\* C13 as amended: get_title returns the longest non-null one of
\* extendedDisplayTitle, displayTitle and title, the first of them on equal
\* length; when all three are null or empty it returns extendedDisplayTitle
\* as it is, null or the empty string.
C13_LongestOrFirstField ==
    stream_out.called = "get_title" =>
        IF \A i \in 1..3 : NullOrEmpty(TitlesInOrder[i])
        THEN stream_out.value = raw_stream.extendedDisplayTitle
        ELSE LongestFirst

\* two fields of the same length, longer than the first one: the earlier of
\* the two was returned
C13_Witness ==
    /\ stream_out.called = "get_title"
    /\ raw_stream.extendedDisplayTitle = Some("")
    /\ raw_stream.displayTitle = Some("a")
    /\ raw_stream.title = Some("b")
    /\ stream_out.value = Some("a")


-----------------------------------------------------------------------------
(* Properties of Title.from_string *)

\* the string "N s<S>e<E>" with the given markers
Typed(name, season_marker, season, episode_marker, episode) ==
    name \o <<" ", season_marker>> \o season \o <<episode_marker>> \o episode

\* the lower-case markers are recognised: "N s<S>e<E>" parses to name N,
\* season int(S), episode int(E)
LowerCaseMarkersParsed ==
    \A name \in TypedNames : \A season, episode \in Digits :
        (parsed_title.called /\ typed_title = Typed(name, "s", season, "e", episode))
            => /\ ~parsed_title.raised
               /\ parsed_title.value = Title(name, None, Some(int(season)), Some(int(episode)))

\* C14: for every name N and digit strings S and E, parsing "N S<S>E<E>"
\* (upper-case markers) yields the same Title as parsing "N s<S>e<E>": name N,
\* season int(S), episode int(E)
C14_MarkersCaseInsensitive ==
    \A name \in TypedNames : \A season, episode \in Digits :
        (parsed_title.called /\ typed_title = Typed(name, "S", season, "E", episode))
            => /\ ~parsed_title.raised
               /\ parsed_title.value = from_string(Typed(name, "s", season, "e", episode)).value
               /\ parsed_title.value = Title(name, None, Some(int(season)), Some(int(episode)))

-----------------------------------------------------------------------------
(* Properties of language_cmp on a pair *)

\* a and b have the same language and the same role flags
SameLanguageAndFlags ==
    /\ cmp_args.a.language = cmp_args.b.language
    /\ cmp_args.a.commentary = cmp_args.b.commentary
    /\ cmp_args.a.closed_caption = cmp_args.b.closed_caption
    /\ cmp_args.a.hearing_impaired = cmp_args.b.hearing_impaired

\* C15 as stated: when a and b have the same language and the same
\* commentary, closed_caption and hearing_impaired values, compare(a, b)
\* is the index order: -1 when a.index < b.index, 1 when a.index > b.index
C15_TieFallsToIndexOrder ==
    (cmp_out.done /\ SameLanguageAndFlags) =>
        /\ ~cmp_out.ab.raised
        /\ cmp_args.a.index < cmp_args.b.index => cmp_out.ab.value = -1
        /\ cmp_args.a.index > cmp_args.b.index => cmp_out.ab.value = 1

\* C15 amended: when a and b have the same language and the same role
\* flags, compare(a, b) and compare(b, a) are 0 whatever the indexes and
\* the desired language
C15_TieIsZero ==
    (cmp_out.done /\ SameLanguageAndFlags) =>
        /\ cmp_out.ab = Ret(0)
        /\ cmp_out.ba = Ret(0)

\* two commentary streams for the hearing impaired in the same language, the
\* first with the larger index, compared as equal
C15_Witness ==
    /\ cmp_out.done
    /\ SameLanguageAndFlags
    /\ cmp_args.a.commentary /\ cmp_args.a.hearing_impaired
    /\ cmp_args.a.index > cmp_args.b.index
    /\ cmp_args.desired_language # cmp_args.a.language
    /\ cmp_out.ab.value = 0

\* a and b have different languages, neither the desired one, the same
\* alpha3 code and different countries
C16_Case ==
    /\ cmp_args.desired_language # NoLanguage
    /\ cmp_args.a.language # cmp_args.b.language
    /\ cmp_args.a.language # cmp_args.desired_language
    /\ cmp_args.b.language # cmp_args.desired_language
    /\ cmp_args.a.language.alpha3 = cmp_args.b.language.alpha3
    /\ cmp_args.a.language.country # cmp_args.b.language.country

\* C16: for streams a and b with different languages, neither equal to
\* desired, the same alpha3 code and different countries, if exactly one of
\* them has the country of desired, compare ranks that stream first in
\* either argument position and whatever the two indexes are
C16_DesiredCountryFirst ==
    (cmp_out.done /\ C16_Case) =>
        /\ (/\ cmp_args.a.language.country = cmp_args.desired_language.country
            /\ cmp_args.b.language.country # cmp_args.desired_language.country)
               => (cmp_out.ab = Ret(-1) /\ cmp_out.ba = Ret(1))
        /\ (/\ cmp_args.b.language.country = cmp_args.desired_language.country
            /\ cmp_args.a.language.country # cmp_args.desired_language.country)
               => (cmp_out.ab = Ret(1) /\ cmp_out.ba = Ret(-1))
=============================================================================
